---------------------------- MODULE Spec2Model ----------------------------
(***************************************************************************)
(* State-machine model of valhalla_associate_segments.cc: the association  *)
(* of OSMLR traffic segments with the directed edges of a routing graph.   *)
(*                                                                         *)
(* The routing graph, the nearest-edge search (loki) and the path search   *)
(* (thor A* ) are external libraries: the graph is a small fixed graph,   *)
(* and what the two searches answer is an input of the step that calls     *)
(* them.  A coordinate (PointLL) is a position in meters on a line.        *)
(*                                                                         *)
(* The score computed by match_edges (lines 405-454) is a local value that *)
(* is never read; it is not part of the state.                             *)
(***************************************************************************)
EXTENDS Integers, Sequences, FiniteSets, TLC

\* ------------------------------------------------------------------------
\* Bounds of the model
\* ------------------------------------------------------------------------
\* largest number of location reference points of one segment
MaxLrps == 3
\* largest number of entries (markers and segments) of one OSMLR tile
MaxEntries == 2
\* largest number of segment entries over all OSMLR tiles of one run
MaxSegments == 2
\* largest length, in meters, of a directed edge of the graph
MaxLen == 1
\* largest number of points of a polyline given to chop_subsegment
MaxPts == 3
\* largest position, in meters, of a point of such a polyline
MaxPos == 2
\* largest length, in meters, chop_subsegment is asked to chop off
MaxDist == 3
\* the heading of a polyline is a multiple of 1/HeadingDen degrees
HeadingDen == 2

\* ------------------------------------------------------------------------
\* GraphId: (tile, id) packed in one integer, as baldr::GraphId packs its
\* fields in one 64 bit value.
\* ------------------------------------------------------------------------
IdSpace == MaxEntries + 2

GraphId(tileid, id) == tileid * IdSpace + id

Tile_Base(g) == g - (g % IdSpace)

\* ------------------------------------------------------------------------
\* float: the values the program computes are 0, 1, a quotient a/b with
\* 0 < a <= b rounded to 24 significant bits, or NaN (0/0).
\* <<m, k>> with 2^23 <= m < 2^24 is m * 2^-k.
\* ------------------------------------------------------------------------
Pow2(k) == 2 ^ k

F32Zero == <<0, 0>>
F32One == <<Pow2(23), 23>>
F32NaN == <<0, -1>>
F32Inf == <<1, -1>>

\* the least k >= from with a * 2^k >= b * 2^23
RECURSIVE ScaleExp(_, _, _)
ScaleExp(a, b, from) ==
  IF a * Pow2(from) >= b * Pow2(23) THEN from ELSE ScaleExp(a, b, from + 1)

\* float(a) / float(b) for integers 0 <= a <= b, round to nearest, ties to even
F32Div(a, b) ==
  IF b = 0 THEN (IF a = 0 THEN F32NaN ELSE F32Inf)
  ELSE IF a = 0 THEN F32Zero
  ELSE LET k == ScaleExp(a, b, 23)
           n == a * Pow2(k)
           q == n \div b
           r == n % b
           m == IF 2 * r > b THEN q + 1
                ELSE IF 2 * r = b THEN q + (q % 2)
                ELSE q
       IN  IF m = Pow2(24) THEN <<Pow2(23), k - 1>> ELSE <<m, k>>

F32IsNaN(x) == x = F32NaN

\* x <= y on floats in [0, 1]; false when either is NaN
F32Le(x, y) ==
  /\ ~F32IsNaN(x)
  /\ ~F32IsNaN(y)
  /\ \/ x = F32Zero
     \/ /\ y # F32Zero
        /\ \/ x[2] > y[2]
           \/ x[2] = y[2] /\ x[1] <= y[1]


\* ------------------------------------------------------------------------
\* The routing graph (external data, read through GraphReader): three nodes
\* A, B, C on a line; A lies in graph tile 1, B and C in graph tile 2.  A
\* directed edge is stored in the tile of its start node.
\* ------------------------------------------------------------------------
NodeA == GraphId(1, 0)
NodeB == GraphId(2, 0)
NodeC == GraphId(2, 1)

EdgeAB == GraphId(1, 0)
EdgeBA == GraphId(2, 0)
EdgeBC == GraphId(2, 1)
EdgeCB == GraphId(2, 2)

Nodes == {NodeA, NodeB, NodeC}
Edges == {EdgeAB, EdgeBA, EdgeBC, EdgeCB}
Roads == {"ab", "bc"}

\* access masks are sets of access modes
kVehicular == {"auto", "truck", "taxi", "bus", "hov"}
kAllAccess == kVehicular \cup {"pedestrian", "bicycle", "emergency"}

\* NodeInfo: position and index of the node's first outbound edge in its tile
node(node_id) ==
  CASE node_id = NodeA -> [latlng |-> 0, edge_index |-> 0]
    [] node_id = NodeB -> [latlng |-> 50, edge_index |-> 0]
    [] node_id = NodeC -> [latlng |-> 100, edge_index |-> 2]

\* DirectedEdge.  The road a-b is one-way for vehicles: its reverse edge
\* BA carries pedestrians only.
directededge(edge_id) ==
  CASE edge_id = EdgeAB ->
         [endnode |-> NodeB, opp_index |-> 0, road |-> "ab",
          forwardaccess |-> kAllAccess, is_shortcut |-> FALSE,
          use |-> "road", trans_up |-> FALSE, trans_down |-> FALSE]
    [] edge_id = EdgeBA ->
         [endnode |-> NodeA, opp_index |-> 0, road |-> "ab",
          forwardaccess |-> {"pedestrian"}, is_shortcut |-> FALSE,
          use |-> "road", trans_up |-> FALSE, trans_down |-> FALSE]
    [] edge_id = EdgeBC ->
         [endnode |-> NodeC, opp_index |-> 0, road |-> "bc",
          forwardaccess |-> kAllAccess, is_shortcut |-> FALSE,
          use |-> "road", trans_up |-> FALSE, trans_down |-> FALSE]
    [] edge_id = EdgeCB ->
         [endnode |-> NodeB, opp_index |-> 1, road |-> "bc",
          forwardaccess |-> kAllAccess, is_shortcut |-> FALSE,
          use |-> "road", trans_up |-> FALSE, trans_down |-> FALSE]

\* ------------------------------------------------------------------------
\* Road-attribute classifiers
\* ------------------------------------------------------------------------
edge_pred(edge) ==
  /\ edge.use # "ferry"
  /\ edge.use # "transit_connection"
  /\ ~edge.trans_up
  /\ ~edge.trans_down

check_access(edge) ==
  LET access == kAllAccess \cap edge.forwardaccess
  IN  IF edge.is_shortcut THEN FALSE
      ELSE IF edge_pred(edge) = FALSE THEN FALSE
      ELSE (access \cap kVehicular) # {}

\* ------------------------------------------------------------------------
\* Geometry
\* ------------------------------------------------------------------------
Abs(x) == IF x < 0 THEN 0 - x ELSE x

\* PointLL::Distance, in meters
Distance(a, b) == Abs(a - b)

\* PointLL::DistanceSquared, in square meters: the square of the distance
DistanceSquared(a, b) == Distance(a, b) * Distance(a, b)

kApproxEqualDistanceSquared == 100

\* the comparison with the tolerance made strict
approx_equal_strict(a, b) == DistanceSquared(a, b) < kApproxEqualDistanceSquared

approx_equal(a, b) == DistanceSquared(a, b) <= kApproxEqualDistanceSquared

lookup_end_coord(edge_id) ==
  LET edge == directededge(edge_id)
      node_id == edge.endnode
  IN  node(node_id).latlng

lookup_start_coord(edge_id) ==
  LET edge == directededge(edge_id)
      opp_index == edge.opp_index
      node_id == edge.endnode
      nd == node(node_id)
  IN  lookup_end_coord(Tile_Base(node_id) + (nd.edge_index + opp_index))

\* ------------------------------------------------------------------------
\* Inputs
\* ------------------------------------------------------------------------
\* the entries of the directory tree main walks: two OSMLR tiles and a file
\* that is not one.  tile is the tile id GraphTile::GetTileId reads from the
\* file name.
DirEntries ==
  { [regular |-> TRUE, ext |-> ".osmlr", tile |-> 1],
    [regular |-> TRUE, ext |-> ".osmlr", tile |-> 2],
    [regular |-> TRUE, ext |-> ".txt", tile |-> 0] }

\* positions of location reference points: at node A, at node B, and 10 m
\* past node C
Coords == {0, 50, 110}

\* the number of LRPs of a segment: at least two
Sizes == 2..MaxLrps

\* what loki_search_single answers: no PathLocation, or one with the
\* candidate edges of the road the point lies on
Searches ==
  { <<>>, << [edges |-> {EdgeAB, EdgeBA}] >>, << [edges |-> {EdgeBC, EdgeCB}] >> }

\* what GetBestPath answers: the edge ids of the path, in order
Paths == { <<>>, <<EdgeAB>>, <<EdgeBC>>, <<EdgeAB, EdgeBC>>, <<EdgeBA>> }

\* the entries of an OSMLR tile
EntrySeqs == UNION { [1..n -> {"marker", "segment"}] : n \in 0..MaxEntries }

RECURSIVE CountSegments(_)
CountSegments(es) ==
  IF es = <<>> THEN 0
  ELSE (IF Head(es) = "segment" THEN 1 ELSE 0) + CountSegments(Tail(es))

\* ------------------------------------------------------------------------
\* State
\* ------------------------------------------------------------------------
VARIABLES
  pc,               \* where the run is: main, add_tile, match_edges, done,
                    \* aborted
  todo,             \* directory entries main has not visited yet
  nsegs,            \* segment entries read so far (bounded by MaxSegments)
  base_id,          \* add_tile: tile id of the OSMLR tile being read
  entries,          \* add_tile: the entries of the tile
  it,               \* add_tile: entries the loop has gone past
  entry_id,         \* add_tile: the counter entry_id
  size,             \* match_edges: lrps_size() of the segment being matched
  segment,          \* match_edges: the coordinates of the LRPs of the
                    \* segment that have been read, in order
  i,                \* match_edges: index of the current LRP pair
  origin,           \* match_edges: PathLocation the next path starts from
  edges,            \* match_edges: edge ids collected so far
  m_tiles,          \* tile id -> GraphTileBuilder of that tile
  m_partial_chunks, \* chunks saved for later
  storage,          \* what UpdateTrafficSegments wrote to the tile store
  log,              \* the warnings logged
  edge_length,      \* road -> length of its directed edges (graph data)
  last,             \* history: the call of match_segment that returned in
                    \* the step just taken (NoLast after any other step)
  heading,          \* bearing: what HeadingAlongPolyline returned
  bear,             \* bearing: the value returned, -1 before the call
  shape,            \* chop_subsegment: the polyline seg, which it modifies
  chop_dist,        \* chop_subsegment: the length dist to chop off
  chopped           \* chop_subsegment: the polyline returned

vars == << pc, todo, nsegs, base_id, entries, it, entry_id, size, segment, i,
           origin, edges, m_tiles, m_partial_chunks, storage, log,
           edge_length, last, heading, bear, shape, chop_dist, chopped >>

NoOrigin == [edges |-> {}]

\* the empty map
NoTiles == [t \in {} |-> 0]

\* ------------------------------------------------------------------------
\* match_edges
\* ------------------------------------------------------------------------
kEndNodeTolerance == 10

\* a discarding return that hands back what was collected so far
DiscardedKeepsEdges(es) == es

\* return std::vector<vb::GraphId>(): what a discarding return hands back
Discarded(es) == <<>>

\* the collected ids returned as they are, duplicates included
unique_skipped(es) == es

\* std::unique followed by erase: every run of equal adjacent ids is
\* collapsed to its first element
RECURSIVE unique(_)
unique(es) ==
  IF Len(es) <= 1 THEN es
  ELSE IF es[1] = es[2] THEN unique(Tail(es))
  ELSE <<es[1]>> \o unique(Tail(es))

\* the checks of one LRP pair without the check of where the path ends
PairCheck_no_end_check(orig, dests, path, next_coord) ==
  IF Len(dests) = 0 THEN "no_dest"
  ELSE IF path = <<>> THEN "no_route"
  ELSE IF ~check_access(directededge(path[1])) THEN "no_access"
  ELSE IF path[1] \notin orig.edges THEN "not_found"
  ELSE "ok"

\* the checks of one LRP pair, in the order of the code: "ok", or the
\* reason for which the segment is discarded
PairCheck(orig, dests, path, next_coord) ==
  IF Len(dests) = 0 THEN "no_dest"
  ELSE IF path = <<>> THEN "no_route"
  ELSE IF Distance(lookup_end_coord(path[Len(path)]), next_coord) > kEndNodeTolerance
       THEN "end_mismatch"
  ELSE IF ~check_access(directededge(path[1])) THEN "no_access"
  ELSE IF path[1] \notin orig.edges THEN "not_found"
  ELSE "ok"

\* ------------------------------------------------------------------------
\* Association builder
\* ------------------------------------------------------------------------
\* a builder looked up under the id of the edge, not of its tile
builder_key_is_edge(edge_id) == edge_id

\* the key under which builder_for_edge looks the builder of an edge up
builder_key(edge_id) == Tile_Base(edge_id)

\* builder_for_edge: the builder map with the builder of the edge's tile in
\* it, created (with no associations) if it was not there
builder_for_edge(tiles, edge_id) ==
  LET tile_id == builder_key(edge_id)
  IN  IF tile_id \in DOMAIN tiles THEN tiles
      ELSE tiles @@ (tile_id :> [tile_id |-> tile_id, assoc |-> <<>>])

\* builder_for_edge(edge_id).AddTrafficSegmentAssociation(edge_id, assoc),
\* assoc holding the one pair (TrafficAssociation(segment_id, b, e), weight)
AddTrafficSegmentAssociation(tiles, edge_id, segment_id, b, e, weight) ==
  LET with == builder_for_edge(tiles, edge_id)
      ta == [edge_id |-> edge_id, segment_id |-> segment_id,
             begin_pct |-> b, end_pct |-> e, weight |-> weight]
  IN  [with EXCEPT ![builder_key(edge_id)].assoc = Append(@, ta)]

\* TrafficAssociation built with begin and end exchanged
assign_one_to_one_swapped(tiles, edge_id, segment_id) ==
  AddTrafficSegmentAssociation(tiles, edge_id, segment_id, F32One, F32Zero, F32One)

assign_one_to_one(tiles, edge_id, segment_id) ==
  AddTrafficSegmentAssociation(tiles, edge_id, segment_id, F32Zero, F32One, F32One)

\* lengths[n]: the running total after the first n edges (exact in float for
\* the lengths of the model)
RECURSIVE lengths(_, _)
lengths(es, n) ==
  IF n = 0 THEN 0
  ELSE lengths(es, n - 1) + edge_length[directededge(es[n]).road]

\* the percentage at which edge n of es ends
end_pct_of(es, n) ==
  IF n = Len(es) THEN F32One
  ELSE F32Div(lengths(es, n), lengths(es, Len(es)))

\* the second loop of assign_one_to_many, from edge n on
RECURSIVE assign_from(_, _, _, _, _)
assign_from(tiles, es, segment_id, n, begin_pct) ==
  IF n > Len(es) THEN tiles
  ELSE LET end_pct == end_pct_of(es, n)
       IN  assign_from(
             AddTrafficSegmentAssociation(tiles, es[n], segment_id,
                                          begin_pct, end_pct, F32One),
             es, segment_id, n + 1, end_pct)

assign_one_to_many(tiles, es, segment_id) ==
  assign_from(tiles, es, segment_id, 1, F32Zero)

save_chunk_for_later(chunks, es, segment_id) ==
  Append(chunks, [edges |-> es, segments |-> <<segment_id>>])

\* match_segment without its else: the chunk is saved whatever the two
\* comparisons answered
match_segment_no_else(tiles, chunks, lg, segment_id, seg, es) ==
  IF es = <<>>
  THEN [tiles |-> tiles, chunks |-> chunks,
        log |-> Append(lg, [msg |-> "unable_to_match", seg |-> segment_id])]
  ELSE LET close == /\ approx_equal(seg[1], lookup_start_coord(es[1]))
                    /\ approx_equal(seg[Len(seg)], lookup_end_coord(es[Len(es)]))
           assigned == IF ~close THEN tiles
                       ELSE IF Len(es) = 1
                       THEN assign_one_to_one(tiles, es[1], segment_id)
                       ELSE assign_one_to_many(tiles, es, segment_id)
       IN  [tiles |-> assigned,
            chunks |-> save_chunk_for_later(chunks, es, segment_id),
            log |-> lg]

\* match_segment after match_edges returned es: the builder map, the chunks
\* and the log it leaves
match_segment(tiles, chunks, lg, segment_id, seg, es) ==
  IF es = <<>>
  THEN [tiles |-> tiles, chunks |-> chunks,
        log |-> Append(lg, [msg |-> "unable_to_match", seg |-> segment_id])]
  ELSE LET seg_start == seg[1]
           seg_end == seg[Len(seg)]
           edges_start == lookup_start_coord(es[1])
           edges_end == lookup_end_coord(es[Len(es)])
       IN  IF approx_equal(seg_start, edges_start)
              /\ approx_equal(seg_end, edges_end)
           THEN IF Len(es) = 1
                THEN [tiles |-> assign_one_to_one(tiles, es[1], segment_id),
                      chunks |-> chunks, log |-> lg]
                ELSE [tiles |-> assign_one_to_many(tiles, es, segment_id),
                      chunks |-> chunks, log |-> lg]
           ELSE [tiles |-> tiles,
                 chunks |-> save_chunk_for_later(chunks, es, segment_id),
                 log |-> lg]

\* ------------------------------------------------------------------------
\* finish
\* ------------------------------------------------------------------------
\* the orders in which a walk of an unordered_map can meet its keys: each
\* key once, in an order the container chooses
IterationOrders(keys) ==
  { o \in [1..Cardinality(keys) -> keys] :
      \A a, b \in 1..Cardinality(keys) : o[a] = o[b] => a = b }

\* UpdateTrafficSegments of every builder of the map, met in the order
\* order: one stored record per builder
flush_all(tiles, order) ==
  [n \in 1..Len(order) |->
     [tile_id |-> tiles[order[n]].tile_id, assoc |-> tiles[order[n]].assoc]]

\* the builders left in the map
not_cleared(tiles) == tiles

\* m_tiles.clear()
cleared(tiles) == NoTiles

\* ------------------------------------------------------------------------
\* bearing
\* ------------------------------------------------------------------------
\* std::round of a heading given in 1/HeadingDen degrees: to the nearest
\* integer, halves away from zero (the heading is not negative)
round(h) == (2 * h + HeadingDen) \div (2 * HeadingDen)

\* bearing(shape): uint16_t(std::round(heading))
bearing(h) == round(h) % 65536

\* ------------------------------------------------------------------------
\* chop_subsegment
\* ------------------------------------------------------------------------
\* a point whose coordinates are NaN
PointNaN == 0 - 1

\* interp(a, b, frac) for frac = num / den, den being the distance from a to
\* b: the point at num meters from a towards b; 0 / 0 is NaN
interp(a, b, num, den) ==
  IF den = 0 THEN PointNaN
  ELSE a + ((b - a) * num) \div den

\* seg[n], counted from 0 as in the code
At(seg, n) == seg[n + 1]

\* the loop of chop_subsegment from index n on, d meters and the points of
\* result gone past: the result and what is left in seg
RECURSIVE chop_loop(_, _, _, _, _)
chop_loop(seg, dist, n, d, result) ==
  IF n = Len(seg)
  THEN [result |-> result, seg |-> <<>>]
  ELSE LET segdist == Distance(At(seg, n - 1), At(seg, n))
       IN  IF d + segdist >= dist
           THEN LET midpoint == interp(At(seg, n - 1), At(seg, n), dist - d, segdist)
                IN  [result |-> Append(result, midpoint),
                     seg |-> <<midpoint>> \o SubSeq(seg, n + 1, Len(seg))]
           ELSE chop_loop(seg, dist, n + 1, d + segdist, Append(result, At(seg, n)))

chop_subsegment(seg, dist) == chop_loop(seg, dist, 1, 0, <<At(seg, 0)>>)

\* ------------------------------------------------------------------------
\* The run
\* ------------------------------------------------------------------------
NoLast == [seg |-> 0 - 1]

Init ==
  /\ pc = "main"
  /\ todo = DirEntries
  /\ nsegs = 0
  /\ base_id = 0
  /\ entries = <<>>
  /\ it = 0
  /\ entry_id = 0
  /\ size = 0
  /\ segment = <<>>
  /\ i = 0
  /\ origin = NoOrigin
  /\ edges = <<>>
  /\ m_tiles = NoTiles
  /\ m_partial_chunks = <<>>
  /\ storage = <<>>
  /\ log = <<>>
  /\ edge_length \in [Roads -> 0..MaxLen]
  /\ last = NoLast
  /\ heading = 0
  /\ bear = 0 - 1
  /\ shape = <<>>
  /\ chop_dist = 0
  /\ chopped = <<>>

IsOsmlr(e) == e.regular /\ e.ext = ".osmlr"

\* parse_file_name
parse_file_name(e) == GraphId(e.tile, 0)

\* base_id + entry_id: the id add_tile passes to match_segment
segment_id == base_id + entry_id

\* entry_id counting the segments only
entry_id_counts_segments(eid, entry) == IF entry = "segment" THEN eid + 1 ELSE eid

\* entry_id += 1, at the end of each pass of the loop of add_tile
entry_id_after(eid, entry) == eid + 1

\* main: a directory entry that is not a regular .osmlr file is passed over
MainSkip ==
  /\ pc = "main"
  /\ \E e \in todo :
       /\ ~IsOsmlr(e)
       /\ todo' = todo \ {e}
  /\ last' = NoLast
  /\ UNCHANGED << pc, nsegs, base_id, entries, it, entry_id, size, segment,
                  i, origin, edges, m_tiles, m_partial_chunks, storage, log,
                  edge_length, heading, bear , shape, chop_dist,
                  chopped >>

\* add_tile: the file does not parse; the exception leaves main
AddTileParseError ==
  /\ pc = "main"
  /\ \E e \in todo :
       /\ IsOsmlr(e)
       /\ todo' = todo \ {e}
  /\ pc' = "aborted"
  /\ last' = NoLast
  /\ UNCHANGED << nsegs, base_id, entries, it, entry_id, size, segment, i,
                  origin, edges, m_tiles, m_partial_chunks, storage, log,
                  edge_length, heading, bear , shape, chop_dist,
                  chopped >>

\* add_tile: the file parses; the loop over its entries starts
AddTileOpen ==
  /\ pc = "main"
  /\ \E e \in todo, es \in EntrySeqs :
       /\ IsOsmlr(e)
       /\ nsegs + CountSegments(es) <= MaxSegments
       /\ todo' = todo \ {e}
       /\ nsegs' = nsegs + CountSegments(es)
       /\ base_id' = parse_file_name(e)
       /\ entries' = es
  /\ it' = 0
  /\ entry_id' = 0
  /\ pc' = "add_tile"
  /\ last' = NoLast
  /\ UNCHANGED << size, segment, i, origin, edges, m_tiles, m_partial_chunks,
                  storage, log, edge_length, heading, bear , shape, chop_dist,
                  chopped >>

\* add_tile: a marker entry is not matched
AddTileMarker ==
  /\ pc = "add_tile"
  /\ it < Len(entries)
  /\ entries[it + 1] = "marker"
  /\ it' = it + 1
  /\ entry_id' = entry_id_after(entry_id, entries[it + 1])
  /\ last' = NoLast
  /\ UNCHANGED << pc, todo, nsegs, base_id, entries, size, segment, i, origin,
                  edges, m_tiles, m_partial_chunks, storage, log, edge_length,
                  heading, bear , shape, chop_dist,
                  chopped >>

\* add_tile: past the last entry, back to main
AddTileReturn ==
  /\ pc = "add_tile"
  /\ it = Len(entries)
  /\ pc' = "main"
  /\ base_id' = 0
  /\ entries' = <<>>
  /\ it' = 0
  /\ entry_id' = 0
  /\ last' = NoLast
  /\ UNCHANGED << todo, nsegs, size, segment, i, origin, edges, m_tiles,
                  m_partial_chunks, storage, log, edge_length, heading, bear , shape, chop_dist,
                  chopped >>

\* a discard that leaves the run as an exception does
match_segment_throws(es) == IF es = <<>> THEN "aborted" ELSE "add_tile"

\* where the run goes on when match_segment returns, by the return of the
\* discard or by reaching its end: to the loop of add_tile
match_segment_returns_to(es) == "add_tile"

\* whether DistanceSquared finds a and b farther apart than the tolerance
Far(a, b) == DistanceSquared(a, b) > kApproxEqualDistanceSquared

\* match_edges returns es, having examined npairs LRP pairs, read the LRPs
\* seg, collected the ids raw and logged lg: match_segment runs to its end
\* and add_tile moves to the next entry
MatchEdgesReturn(npairs, seg, lg, raw, es) ==
  /\ \E r \in { match_segment(m_tiles, m_partial_chunks, lg, segment_id, seg, es) } :
       /\ m_tiles' = r.tiles
       /\ m_partial_chunks' = r.chunks
       /\ log' = r.log
       /\ last' = [seg |-> segment_id, pairs |-> npairs, raw |-> raw,
                   ret |-> es,
                   start_far |->
                     IF es = <<>> THEN FALSE
                     ELSE Far(seg[1], lookup_start_coord(es[1])),
                   end_far |->
                     IF es = <<>> THEN FALSE
                     ELSE Far(seg[Len(seg)], lookup_end_coord(es[Len(es)])),
                   end_dist |->
                     IF raw = <<>> THEN 0 - 1
                     ELSE Distance(lookup_end_coord(raw[Len(raw)]),
                                   seg[Len(seg)])]
  /\ size' = 0
  /\ segment' = <<>>
  /\ i' = 0
  /\ origin' = NoOrigin
  /\ edges' = <<>>
  /\ it' = it + 1
  /\ entry_id' = entry_id_after(entry_id, entries[it + 1])
  /\ pc' = match_segment_returns_to(es)

\* add_tile calls match_segment, which calls match_edges: the search at the
\* first LRP.  Without a candidate the segment is discarded.
MatchEdgesBegin ==
  /\ pc = "add_tile"
  /\ it < Len(entries)
  /\ entries[it + 1] = "segment"
  /\ \E n \in Sizes, origin_coord \in Coords, origins \in Searches :
       IF Len(origins) = 0
       THEN MatchEdgesReturn(0, <<origin_coord>>,
                             Append(log, [msg |-> "no_origin", seg |-> segment_id]),
                             <<>>, Discarded(<<>>))
       ELSE /\ size' = n
            /\ segment' = <<origin_coord>>
            /\ i' = 0
            /\ origin' = origins[1]
            /\ edges' = <<>>
            /\ pc' = "match_edges"
            /\ last' = NoLast
            /\ UNCHANGED << it, entry_id, m_tiles, m_partial_chunks, log >>
  /\ UNCHANGED << todo, nsegs, base_id, entries, storage, edge_length,
                  heading, bear , shape, chop_dist,
                  chopped >>

\* match_edges: one pass of the loop over the LRP pairs.  A failed check
\* discards the segment; after the last pair the collected ids are
\* deduplicated and returned.
MatchEdgesPair ==
  /\ pc = "match_edges"
  /\ \E next_coord \in Coords, dests \in Searches, path \in Paths :
       LET why == PairCheck(origin, dests, path, next_coord)
           seg == Append(segment, next_coord)
       IN  IF why # "ok"
           THEN MatchEdgesReturn(i + 1, seg,
                                 Append(log, [msg |-> why, seg |-> segment_id]),
                                 <<>>, Discarded(edges))
           ELSE IF i + 1 < size - 1
           THEN /\ segment' = seg
                /\ i' = i + 1
                /\ origin' = dests[1]
                /\ edges' = edges \o path
                /\ last' = NoLast
                /\ UNCHANGED << pc, size, it, entry_id, m_tiles,
                                m_partial_chunks, log >>
           ELSE MatchEdgesReturn(i + 1, seg, log, edges \o path,
                                 unique(edges \o path))
  /\ UNCHANGED << todo, nsegs, base_id, entries, storage, edge_length,
                  heading, bear , shape, chop_dist,
                  chopped >>

\* finish, called by main after the last directory entry
Finish ==
  /\ pc = "main"
  /\ todo = {}
  /\ \E order \in IterationOrders(DOMAIN m_tiles) :
       storage' = storage \o flush_all(m_tiles, order)
  /\ m_tiles' = cleared(m_tiles)
  /\ pc' = "done"
  /\ last' = NoLast
  /\ UNCHANGED << todo, nsegs, base_id, entries, it, entry_id, size, segment,
                  i, origin, edges, m_partial_chunks, log, edge_length,
                  heading, bear , shape, chop_dist,
                  chopped >>

Next ==
  \/ MainSkip
  \/ AddTileParseError
  \/ AddTileOpen
  \/ AddTileMarker
  \/ AddTileReturn
  \/ MatchEdgesBegin
  \/ MatchEdgesPair
  \/ Finish

Spec == Init /\ [][Next]_vars

\* ------------------------------------------------------------------------
\* bearing(shape) on its own: the heading HeadingAlongPolyline returns is
\* any value of [0, 360), whatever the length of the polyline
\* ------------------------------------------------------------------------
InitBearing ==
  /\ pc = "bearing"
  /\ todo = {}
  /\ nsegs = 0
  /\ base_id = 0
  /\ entries = <<>>
  /\ it = 0
  /\ entry_id = 0
  /\ size = 0
  /\ segment = <<>>
  /\ i = 0
  /\ origin = NoOrigin
  /\ edges = <<>>
  /\ m_tiles = NoTiles
  /\ m_partial_chunks = <<>>
  /\ storage = <<>>
  /\ log = <<>>
  /\ edge_length = [r \in Roads |-> 0]
  /\ last = NoLast
  /\ heading \in 0..(360 * HeadingDen - 1)
  /\ bear = 0 - 1
  /\ shape = <<>>
  /\ chop_dist = 0
  /\ chopped = <<>>

CallBearing ==
  /\ pc = "bearing"
  /\ bear' = bearing(heading)
  /\ pc' = "returned"
  /\ UNCHANGED << todo, nsegs, base_id, entries, it, entry_id, size, segment,
                  i, origin, edges, m_tiles, m_partial_chunks, storage, log,
                  edge_length, last, heading , shape, chop_dist,
                  chopped >>

NextBearing == CallBearing

SpecBearing == InitBearing /\ [][NextBearing]_vars

\* ------------------------------------------------------------------------
\* chop_subsegment(seg, dist) on its own: seg has at least two points (the
\* assert of line 59), dist is any unsigned length
\* ------------------------------------------------------------------------
Polylines == UNION { [1..n -> 0..MaxPos] : n \in 2..MaxPts }

InitChop ==
  /\ pc = "chop"
  /\ todo = {}
  /\ nsegs = 0
  /\ base_id = 0
  /\ entries = <<>>
  /\ it = 0
  /\ entry_id = 0
  /\ size = 0
  /\ segment = <<>>
  /\ i = 0
  /\ origin = NoOrigin
  /\ edges = <<>>
  /\ m_tiles = NoTiles
  /\ m_partial_chunks = <<>>
  /\ storage = <<>>
  /\ log = <<>>
  /\ edge_length = [r \in Roads |-> 0]
  /\ last = NoLast
  /\ heading = 0
  /\ bear = 0 - 1
  /\ shape \in Polylines
  /\ chop_dist \in 0..MaxDist
  /\ chopped = <<>>

CallChop ==
  /\ pc = "chop"
  /\ \E r \in { chop_subsegment(shape, chop_dist) } :
       /\ chopped' = r.result
       /\ shape' = r.seg
  /\ pc' = "chopped"
  /\ UNCHANGED << todo, nsegs, base_id, entries, it, entry_id, size, segment,
                  i, origin, edges, m_tiles, m_partial_chunks, storage, log,
                  edge_length, last, heading, bear, chop_dist >>

NextChop == CallChop

SpecChop == InitChop /\ [][NextChop]_vars

\* ------------------------------------------------------------------------
\* What is read off a state
\* ------------------------------------------------------------------------
\* the association records of segment sid in the builder kept under key
SegRecs(tiles, key, sid) ==
  IF key \in DOMAIN tiles
  THEN SelectSeq(tiles[key].assoc, LAMBDA r : r.segment_id = sid)
  ELSE <<>>

\* the segment ids that have an association record in a builder of the map
RecordSegs(tiles) ==
  UNION { { tiles[k].assoc[j].segment_id : j \in DOMAIN tiles[k].assoc } :
          k \in DOMAIN tiles }

\* the segment ids that have an association record in the tile store
StoredSegs(st) ==
  UNION { { st[s].assoc[j].segment_id : j \in DOMAIN st[s].assoc } :
          s \in DOMAIN st }

\* the segment ids that have a partial chunk
ChunkSegsOf(chunks) ==
  UNION { { chunks[c].segments[j] : j \in DOMAIN chunks[c].segments } :
          c \in DOMAIN chunks }

\* the number of partial chunks of segment sid
ChunkCount(chunks, sid) ==
  Cardinality({ c \in DOMAIN chunks :
                \E j \in DOMAIN chunks[c].segments : chunks[c].segments[j] = sid })

NoTraceOf(tiles, chunks, sid) ==
  /\ sid \notin RecordSegs(tiles)
  /\ sid \notin ChunkSegsOf(chunks)

\* the warnings of match_edges, one per reason to discard
DiscardReasons ==
  { "no_origin", "no_dest", "no_route", "end_mismatch", "no_access", "not_found" }

\* the step logs a warning of match_edges: a check of some LRP pair failed
MatchEdgesFails ==
  \E j \in (Len(log) + 1)..Len(log') : log'[j].msg \in DiscardReasons

\* ------------------------------------------------------------------------
\* C1
\* ------------------------------------------------------------------------
\* C1: a step in which a check of match_edges fails, at whichever LRP pair,
\* leaves the builder map and the chunk store as they were (no record, no
\* chunk, no new builder) and the segment has no record and no chunk.
C1_DiscardIsTotal ==
  [][ MatchEdgesFails =>
        /\ m_tiles' = m_tiles
        /\ m_partial_chunks' = m_partial_chunks
        /\ NoTraceOf(m_tiles', m_partial_chunks', segment_id) ]_vars

\* a segment discarded at its second LRP pair, the first having resolved
C1_Witness ==
  /\ last # NoLast
  /\ last.ret = <<>>
  /\ last.pairs = 2
  /\ log[Len(log) - 1].msg \in DiscardReasons
  /\ NoTraceOf(m_tiles, m_partial_chunks, last.seg)

\* ------------------------------------------------------------------------
\* C2
\* ------------------------------------------------------------------------
AssocSegs == RecordSegs(m_tiles) \cup StoredSegs(storage)

ChunkSegs == ChunkSegsOf(m_partial_chunks)

DiscardSegs == { log[j].seg : j \in DOMAIN log }

\* the segments match_segment has returned from
Completed == nsegs - CountSegments(SubSeq(entries, it + 1, Len(entries)))

\* C2: the segments with an association record (one-to-one or one-to-many),
\* those with a partial chunk and those discarded are pairwise disjoint, and
\* together they are as many as the segments match_segment has returned
\* from: each has exactly one outcome.
C2_OneOutcome ==
  /\ AssocSegs \cap ChunkSegs = {}
  /\ AssocSegs \cap DiscardSegs = {}
  /\ ChunkSegs \cap DiscardSegs = {}
  /\ Cardinality(AssocSegs \cup ChunkSegs \cup DiscardSegs) = Completed

\* one segment associated, another deferred as a chunk
C2_Witness ==
  /\ Cardinality(AssocSegs) = 1
  /\ Cardinality(ChunkSegs) = 1
  /\ DiscardSegs = {}
  /\ Completed = 2

\* ------------------------------------------------------------------------
\* C3
\* ------------------------------------------------------------------------
\* how many of the first n edges of es lie in the tile of edge n
RankInTile(es, n) ==
  Cardinality({ p \in 1..n : Tile_Base(es[p]) = Tile_Base(es[n]) })

\* equality of two floats: NaN equals nothing
F32Eq(x, y) == ~F32IsNaN(x) /\ ~F32IsNaN(y) /\ x = y

\* a float of [0, 1] in units of 2^-27
Scaled(x) == IF x = F32Zero THEN 0 ELSE x[1] * Pow2(27 - x[2])

\* e - b is len / total, up to the rounding of b and of e
Proportional(b, e, len, total) ==
  /\ ~F32IsNaN(b)
  /\ ~F32IsNaN(e)
  /\ total > 0
  /\ Abs((Scaled(e) - Scaled(b)) * total - len * Pow2(27)) <= 8 * total

\* the call of match_segment that just returned was given k >= 2 edges with
\* both ends within tolerance
OneToManyCase ==
  /\ last # NoLast
  /\ Len(last.ret) >= 2
  /\ ~last.start_far
  /\ ~last.end_far

\* C3: after a one-to-many assignment of edges e1..ek the segment has exactly
\* k records, one per edge in order (each in the builder of its edge's
\* tile), with begin_1 = 0, end_k = 1, begin_(i+1) = end_i, begin_i <= end_i
\* and end_i - begin_i = length(e_i) / total length up to float rounding.
C3_Fractions ==
  OneToManyCase =>
    LET es == last.ret
        k == Len(es)
        total == lengths(es, k)
        rec(n) == SegRecs(m_tiles, Tile_Base(es[n]), last.seg)[RankInTile(es, n)]
    IN  /\ \A p \in 1..k : Tile_Base(es[p]) \in DOMAIN m_tiles
        /\ \A key \in DOMAIN m_tiles :
             Len(SegRecs(m_tiles, key, last.seg))
               = Cardinality({ p \in 1..k : Tile_Base(es[p]) = key })
        /\ \A n \in 1..k : rec(n).edge_id = es[n]
        /\ F32Eq(rec(1).begin_pct, F32Zero)
        /\ F32Eq(rec(k).end_pct, F32One)
        /\ \A n \in 1..(k - 1) : F32Eq(rec(n + 1).begin_pct, rec(n).end_pct)
        /\ \A n \in 1..k : F32Le(rec(n).begin_pct, rec(n).end_pct)
        /\ \A n \in 1..k :
             Proportional(rec(n).begin_pct, rec(n).end_pct,
                          edge_length[directededge(es[n]).road], total)

\* a one-to-many assignment over edges that all have length 0: the first
\* record ends at 0/0
C3_Witness ==
  /\ OneToManyCase
  /\ lengths(last.ret, Len(last.ret)) = 0
  /\ F32IsNaN(SegRecs(m_tiles, Tile_Base(last.ret[1]), last.seg)[1].end_pct)

\* ------------------------------------------------------------------------
\* C4
\* ------------------------------------------------------------------------
\* C4: after match_segment was given exactly one edge with both ends within
\* tolerance, the segment has exactly one record; it is in the builder of
\* the edge's tile, attached to the edge, with begin 0, end 1 and weight 1.
C4_OneToOneRecord ==
  (last # NoLast /\ Len(last.ret) = 1 /\ ~last.start_far /\ ~last.end_far) =>
    LET e == last.ret[1]
    IN  /\ Tile_Base(e) \in DOMAIN m_tiles
        /\ \A key \in DOMAIN m_tiles :
             Len(SegRecs(m_tiles, key, last.seg))
               = IF key = Tile_Base(e) THEN 1 ELSE 0
        /\ SegRecs(m_tiles, Tile_Base(e), last.seg)[1]
             = [edge_id |-> e, segment_id |-> last.seg, begin_pct |-> F32Zero,
                end_pct |-> F32One, weight |-> F32One]
        /\ last.seg \notin ChunkSegs

\* a segment matched to the edge from B to C alone
C4_Witness ==
  /\ last # NoLast
  /\ last.ret = <<EdgeBC>>
  /\ ~last.start_far
  /\ ~last.end_far
  /\ last.seg \in RecordSegs(m_tiles)

\* ------------------------------------------------------------------------
\* C5
\* ------------------------------------------------------------------------
\* C5: after match_segment was given a non-empty edge sequence: if the start
\* or the end is out of tolerance (squared distance > 100), the chunk store
\* ends with the chunk of the whole sequence and the segment id, that is the
\* only chunk of the segment, and the segment has no record; if both are
\* within tolerance the segment has no chunk.
C5_ChunkIffOutOfTolerance ==
  (last # NoLast /\ last.ret # <<>>) =>
    IF last.start_far \/ last.end_far
    THEN /\ m_partial_chunks # <<>>
         /\ m_partial_chunks[Len(m_partial_chunks)]
              = [edges |-> last.ret, segments |-> <<last.seg>>]
         /\ ChunkCount(m_partial_chunks, last.seg) = 1
         /\ last.seg \notin RecordSegs(m_tiles)
    ELSE ChunkCount(m_partial_chunks, last.seg) = 0

\* a chunk saved because the first edge starts 50 m before the first LRP
C5_Witness ==
  /\ last # NoLast
  /\ Len(last.ret) = 2
  /\ last.start_far
  /\ ~last.end_far
  /\ ChunkCount(m_partial_chunks, last.seg) = 1
  /\ m_partial_chunks[Len(m_partial_chunks)]
       = [edges |-> last.ret, segments |-> <<last.seg>>]

\* ------------------------------------------------------------------------
\* C6
\* ------------------------------------------------------------------------
\* the positions of seq at which a run of equal adjacent elements starts
RunStarts(seq) == { p \in DOMAIN seq : p = 1 \/ seq[p] # seq[p - 1] }

\* C6: the sequence match_edges returns for a segment it does not discard has
\* no two equal adjacent ids, and is the concatenation of the paths with
\* every run of equal adjacent ids reduced to its first element, the order
\* kept.
C6_Deduplicated ==
  (last # NoLast /\ last.ret # <<>>) =>
    LET starts == RunStarts(last.raw)
    IN  /\ \A p \in 1..(Len(last.ret) - 1) : last.ret[p] # last.ret[p + 1]
        /\ Len(last.ret) = Cardinality(starts)
        /\ \A p \in starts :
             last.ret[Cardinality({ q \in starts : q <= p })] = last.raw[p]

\* two paths that share the edge at which they meet: the concatenation has
\* it twice, what is returned once
C6_Witness ==
  /\ last # NoLast
  /\ last.raw = <<EdgeAB, EdgeAB, EdgeBC>>
  /\ last.ret = <<EdgeAB, EdgeBC>>

\* ------------------------------------------------------------------------
\* C7
\* ------------------------------------------------------------------------
\* C7: every key of the builder map is a tile id and its builder is the
\* builder of that tile, so no two builders are of one tile; a builder holds
\* at least one record; and every record is in the builder kept under the
\* tile of its edge.
C7_OneBuilderPerTile ==
  /\ \A k \in DOMAIN m_tiles :
       /\ k = Tile_Base(k)
       /\ m_tiles[k].tile_id = k
       /\ m_tiles[k].assoc # <<>>
       /\ \A j \in DOMAIN m_tiles[k].assoc :
            Tile_Base(m_tiles[k].assoc[j].edge_id) = k
  /\ \A k1, k2 \in DOMAIN m_tiles :
       m_tiles[k1].tile_id = m_tiles[k2].tile_id => k1 = k2

\* one segment whose consecutive edges lie in two tiles, with a record in
\* the builder of each
C7_Witness ==
  /\ Cardinality(DOMAIN m_tiles) = 2
  /\ \E sid \in RecordSegs(m_tiles) :
       \A k \in DOMAIN m_tiles : SegRecs(m_tiles, k, sid) # <<>>

\* ------------------------------------------------------------------------
\* C8
\* ------------------------------------------------------------------------
\* C8: the tile store changes only in the step of finish, taken by main when
\* no directory entry is left and no tile is being read; that step stores
\* the records of each builder of the map exactly once, empties the map and
\* leaves the chunk store as it was; and no step other than finish ends the
\* run.
C8_FlushAtEnd ==
  [][ /\ storage' # storage =>
           /\ pc = "main"
           /\ todo = {}
           /\ Completed = nsegs
           /\ pc' = "done"
           /\ storage = <<>>
           /\ Len(storage') = Cardinality(DOMAIN m_tiles)
           /\ \A k \in DOMAIN m_tiles :
                \E s \in DOMAIN storage' :
                  /\ storage'[s] = [tile_id |-> k, assoc |-> m_tiles[k].assoc]
                  /\ \A t \in DOMAIN storage' :
                       storage'[t].tile_id = k => t = s
      /\ (pc' = "done" /\ pc # "done") =>
           /\ pc = "main"
           /\ todo = {}
           /\ m_tiles' = NoTiles
           /\ m_partial_chunks' = m_partial_chunks
           /\ StoredSegs(storage') \cap ChunkSegsOf(m_partial_chunks') = {} ]_vars

\* a finished run that flushed two builders and still holds a chunk
C8_Witness ==
  /\ pc = "done"
  /\ Len(storage) = 2
  /\ m_tiles = NoTiles
  /\ m_partial_chunks # <<>>

\* ------------------------------------------------------------------------
\* C9
\* ------------------------------------------------------------------------
\* C9: while add_tile reads a tile, entry_id is the number of entries gone
\* past, markers included; the entry match_segment is called for is a
\* segment, and the id it is called with is the tile's base id plus the
\* position of the entry among all entries of the tile.
C9_SegmentIds ==
  /\ pc = "add_tile" => entry_id = it
  /\ pc = "match_edges" =>
       /\ entries[it + 1] = "segment"
       /\ segment_id = base_id + it
       /\ base_id = Tile_Base(base_id)
  /\ last # NoLast =>
       /\ entries[it] = "segment"
       /\ last.seg = base_id + (it - 1)
       /\ base_id = Tile_Base(base_id)

\* a segment that follows a marker: it is given the second id of its tile
C9_Witness ==
  /\ last # NoLast
  /\ it = 2
  /\ entries = <<"marker", "segment">>
  /\ last.seg = base_id + 1

\* ------------------------------------------------------------------------
\* C10
\* ------------------------------------------------------------------------
\* C10: the value bearing returns is at least 0 and at most 359.
C10_BearingInRange ==
  pc = "returned" => (0 <= bear /\ bear <= 359)

\* a heading of 359.5 degrees or more, returned as 360
C10_Witness ==
  /\ pc = "returned"
  /\ 2 * heading >= 719 * HeadingDen
  /\ bear = 360

\* ------------------------------------------------------------------------
\* C11
\* ------------------------------------------------------------------------
\* C11: chop_subsegment called with distance 0 returns a polyline of one
\* point (the first point of the polyline it was given).
C11_ChopZero ==
  (pc = "chopped" /\ chop_dist = 0) => Len(chopped) = 1

\* a call with distance 0 on a polyline that starts with two distinct
\* points: two points are returned, the first point twice
C11_Witness ==
  /\ pc = "chopped"
  /\ chop_dist = 0
  /\ Len(chopped) = 2
  /\ chopped[1] = chopped[2]
  /\ shape[1] = chopped[1]
  /\ Len(shape) >= 2
  /\ shape[2] # shape[1]

\* ------------------------------------------------------------------------
\* C12
\* ------------------------------------------------------------------------
\* what a step does, if it discards a segment, aborts the run or ends it
FailureStaysLocal ==
  /\ MatchEdgesFails =>
       /\ log'[Len(log')] = [msg |-> "unable_to_match", seg |-> segment_id]
       /\ pc' = "add_tile"
       /\ it' = it + 1
       /\ entries' = entries
       /\ todo' = todo
       /\ storage' = storage
  /\ (pc' = "aborted" /\ pc # "aborted") =>
       /\ pc = "main"
       /\ log' = log
       /\ \E e \in todo : IsOsmlr(e) /\ todo' = todo \ {e}
  /\ (pc' = "done" /\ pc # "done") =>
       /\ todo = {}
       /\ Completed = nsegs
       /\ StoredSegs(storage') = RecordSegs(m_tiles)

\* what the run can do next, whatever was discarded before
RunGoesOn ==
  /\ (pc = "add_tile" /\ it < Len(entries) /\ entries[it + 1] = "segment")
       => ENABLED MatchEdgesBegin
  /\ pc = "match_edges" => ENABLED MatchEdgesPair
  /\ (pc = "main" /\ \E e \in todo : IsOsmlr(e)) => ENABLED AddTileOpen
  /\ (pc = "main" /\ todo = {}) => ENABLED Finish
  /\ pc \in {"done", "aborted"} \/ ENABLED Next

\* C12: a step that discards a segment logs the warning and goes on with the
\* next entry of the tile, with nothing stored and no directory entry lost;
\* in every state later segments can still be matched, later tiles read
\* and finish called; the run ends with the records of every associated
\* segment stored; and the only step that aborts the run is the failure to
\* parse a tile file.
C12_NoEscalation == []RunGoesOn /\ [][FailureStaysLocal]_vars

\* a finished run in which a segment was discarded and a later segment of
\* the same tile has its records stored
C12_Witness ==
  /\ pc = "done"
  /\ \E d \in DiscardSegs, a \in StoredSegs(storage) :
       Tile_Base(d) = Tile_Base(a) /\ d < a

\* ------------------------------------------------------------------------
\* C13
\* ------------------------------------------------------------------------
\* C13: after match_segment was given a non-empty edge sequence: its last
\* edge is the last edge of the last path, whose end node is within 10 m of
\* the last LRP; the test of the end in match_segment has passed; and the
\* segment has a chunk exactly if the start is out of tolerance.
C13_EndAlwaysPasses ==
  (last # NoLast /\ last.ret # <<>>) =>
    /\ last.ret[Len(last.ret)] = last.raw[Len(last.raw)]
    /\ last.end_dist <= kEndNodeTolerance
    /\ ~last.end_far
    /\ (ChunkCount(m_partial_chunks, last.seg) = 1) <=> last.start_far

\* a segment whose last edge ends exactly 10 m from the last LRP, so that
\* the test of the end passes at its limit, and whose first edge starts 50 m
\* from the first LRP: it is deferred because of its start alone
C13_Witness ==
  /\ last # NoLast
  /\ last.ret = <<EdgeAB, EdgeBC>>
  /\ last.end_dist = kEndNodeTolerance
  /\ ~last.end_far
  /\ last.start_far
  /\ m_partial_chunks[Len(m_partial_chunks)]
       = [edges |-> last.ret, segments |-> <<last.seg>>]
  /\ last.seg \notin RecordSegs(m_tiles)

=============================================================================
